---- MODULE Spec2Model ----
(***************************************************************************)
(* TorRequestsWrapper (src/tor_requests.py, duplicated in src/main.py) and *)
(* the tor_request decorator, with the decorated fetch_webpage of          *)
(* src/example.py, as a state machine of one calling thread.               *)
(*                                                                         *)
(* Python values are tagged records so that None, booleans, strings and    *)
(* dicts are distinct and comparable, as in Python.  The transport         *)
(* (the requests library) and the IP-check service are the environment:    *)
(* every call to them is logged in net, and its outcome is chosen from a   *)
(* small set of responses and exceptions.                                  *)
(***************************************************************************)
EXTENDS Integers, Sequences, FiniteSets, TLC

VARIABLES
    heap,        \* object id -> TorRequestsWrapper instance, or None
    pc,          \* position of the calling thread
    self,        \* object whose method is executing
    caller,      \* who called check_tor_connection: "top" or "wrapper"
    direct_ip,   \* local of check_tor_connection
    port_i,      \* position of the for loop of check_tor_connection (1-based)
    req,         \* arguments of the verb call in progress
    wcall,       \* arguments of the wrapper call in progress
    net,         \* transport calls made by the operation in progress / last done
    func_calls,  \* invocations of the wrapped function by the wrapper call
    func_ret,    \* what the wrapped function returned
    last_check,  \* per object: outcome of its latest check_tor_connection
    verified,    \* per object: some check_tor_connection has returned True
    ret,         \* outcome of the top-level operation in progress / last done
    t2           \* a second thread calling a verb on the caller's client

vars == <<heap, pc, self, caller, direct_ip, port_i, req, wcall, net,
          func_calls, func_ret, last_check, verified, ret, t2>>

----------------------------------------------------------------------------
(* Bounds of the model *)

\* longest candidate port list a client is constructed with
MaxPorts == 2

(* Python values *)

None == [type |-> "NoneType"]
PyBool(b) == [type |-> "bool", v |-> b]
Str(s) == [type |-> "str", v |-> s]
Dict(f) == [type |-> "dict", d |-> f]
EmptyDict == Dict(<<>>)
PyException(cls, msg) == [type |-> "exception", cls |-> cls, msg |-> msg]

\* Python truthiness: bool(x)
Truthy(x) ==
    CASE x.type = "NoneType" -> FALSE
      [] x.type = "bool" -> x.v
      [] x.type = "str" -> x.v # ""
      [] x.type = "dict" -> DOMAIN x.d # {}
      [] OTHER -> TRUE

(* Program constants *)

DefaultPorts == <<9150, 9050>>
DefaultTimeout == 10
IpCheckUrl == "https://api.ipify.org?format=json"
NotConfiguredMsg == "Tor proxy not configured. Run check_tor_connection() first."
WrapperFailedMsg == "Tor connection failed. Make sure Tor is running and configured correctly."

(* Inputs *)

PortPool == {9150, 9050}
PortLists == UNION {[1..n -> PortPool] : n \in 0..MaxPorts}
\* the caller passes a timeout of its own; the wrapper's client has the default
TimeoutPool == {5}
\* what the IP-check service can put in the ip field ("" is a falsy value)
IpPool == {"198.51.100.7", "203.0.113.9", ""}
Methods == {"get", "post", "put", "delete"}
UrlPool == {"https://example.com"}
\* keyword options of a verb call; the caller may pass its own proxies
KwargsPool == {<<>>,
               [json |-> Str("v")],
               [headers |-> Str("h"), proxies |-> EmptyDict]}
\* (args, kwargs) of a call of the decorated fetch_webpage
WrapperCalls == {[args |-> <<"https://example.com">>, kwargs |-> <<>>],
                 [args |-> <<>>, kwargs |-> [url |-> "https://example.com/api"]]}
TransportErrors == {"Timeout", "ConnectionError", "SSLError"}
Responses == {[type |-> "Response", status_code |-> 200, text |-> "body"],
              [type |-> "Response", status_code |-> 404, text |-> ""]}

\* outcome of requests.get(ip_check_url, ...) followed by response.json()['ip']:
\* the ip field, a requests.RequestException, a socket.error that is not a
\* RequestException, or a KeyError for a JSON body without the field
ProbeOutcomes ==
    {[kind |-> "ip", ip |-> s] : s \in IpPool}
    \cup {[kind |-> k, ip |-> ""] : k \in {"RequestException", "socket.error", "KeyError"}}

\* outcome of getattr(requests, method)(...): a response or an exception
TransportOutcomes ==
    {[kind |-> "response", v |-> r] : r \in Responses}
    \cup {[kind |-> "raise", v |-> PyException(e, "")] : e \in TransportErrors}

----------------------------------------------------------------------------
(* TorRequestsWrapper *)

__init__(tor_ports, timeout) ==
    [type |-> "TorRequestsWrapper",
     tor_ports |-> tor_ports,
     timeout |-> timeout,
     ip_check_url |-> IpCheckUrl,
     proxies |-> None]

\* the proxy URLs without remote DNS for https (socks5 for socks5h)
_create_proxies_LocalDns(port) ==
    Dict([http |-> "socks5h://127.0.0.1:" \o ToString(port),
          https |-> "socks5://127.0.0.1:" \o ToString(port)])

_create_proxies(port) ==
    Dict([http |-> "socks5h://127.0.0.1:" \o ToString(port),
          https |-> "socks5h://127.0.0.1:" \o ToString(port)])

\* a call of the transport as logged in net: the method of TorRequestsWrapper
\* that made it, the requests function called, its arguments, and what came back
NetCall(by, method, args, kwargs, out) ==
    [by |-> by, method |-> method, args |-> args, kwargs |-> kwargs, out |-> out]

\* _get_direct_ip: requests.get(self.ip_check_url, timeout=self.timeout)
DirectIpCall(o, out) ==
    NetCall("_get_direct_ip", "get", <<o.ip_check_url>>, [timeout |-> o.timeout], out)

\* _get_tor_ip: requests.get(self.ip_check_url, proxies=self.proxies, timeout=self.timeout)
TorIpCall(o, out) ==
    NetCall("_get_tor_ip", "get", <<o.ip_check_url>>,
            [proxies |-> o.proxies, timeout |-> o.timeout], out)

\* the candidate ports taken from the end of the list
PortAt_Reversed(o, i) == o.tor_ports[Len(o.tor_ports) - i + 1]

\* line 89: the port of the i-th iteration of for port in self.tor_ports
PortAt(o, i) == o.tor_ports[i]

\* the test of line 93 without the comparison with the direct IP
TorIpAccepted_NoCompare(tor_ip, dip) == Truthy(tor_ip)

\* the test of line 93 demanding a known direct IP
TorIpAccepted_NeedsDirect(tor_ip, dip) == Truthy(tor_ip) /\ Truthy(dip) /\ tor_ip # dip

\* line 93: if tor_ip and tor_ip != direct_ip
TorIpAccepted(tor_ip, dip) == Truthy(tor_ip) /\ tor_ip # dip

\* _tor_request without the guard of line 120
ProxyNotConfigured_Never(o) == FALSE

\* line 120: if not self.proxies
ProxyNotConfigured(o) == ~Truthy(o.proxies)

\* the client's settings used only when the caller passed no proxies of its own
WithProxies_SetDefault(kwargs, proxies) ==
    [k \in (DOMAIN kwargs) \cup {"proxies"} |->
        IF k \in DOMAIN kwargs THEN kwargs[k] ELSE proxies]

\* line 122: kwargs['proxies'] = self.proxies
WithProxies(kwargs, proxies) ==
    [k \in (DOMAIN kwargs) \cup {"proxies"} |->
        IF k = "proxies" THEN proxies ELSE kwargs[k]]

\* line 123: getattr(requests, method)(*args, **kwargs)
TorRequestCall(o, method, args, kwargs, out) ==
    NetCall("_tor_request", method, args, WithProxies(kwargs, o.proxies), out)

Running(op) == [op |-> op, kind |-> "running", value |-> None]
Returned(op, v) == [op |-> op, kind |-> "return", value |-> v]
Raised(op, e) == [op |-> op, kind |-> "raise", value |-> e]

\* last_check of an object: how its latest check_tor_connection ended, at which
\* loop position, and whether the object was as constructed when it began
NoCheck == [kind |-> "none", value |-> None, port_i |-> 0, fresh |-> FALSE]
CheckBegun(o) ==
    [kind |-> "running", value |-> None, port_i |-> 0,
     fresh |-> (o = __init__(o.tor_ports, o.timeout))]

\* the second thread: its position in _tor_request, the verb it called, where
\* the first thread stood when it passed line 120 and when it reached line 123
\* (and whether a verification had returned True by then), the proxies option
\* of the transport call it made and how its verb ended
T2Idle == [pc |-> "idle", method |-> "none", guard_at |-> "none", call_at |-> "none",
           call_port_i |-> 0, call_verified |-> FALSE, proxies |-> None,
           kind |-> "none"]

Init ==
    /\ \E tor_ports \in PortLists, timeout \in TimeoutPool :
          heap = [tor |-> __init__(tor_ports, timeout), wtor |-> None]
    /\ pc = "idle"
    /\ self = "tor"
    /\ caller = "top"
    /\ direct_ip = None
    /\ port_i = 1
    /\ req = [method |-> "none", args |-> <<>>, kwargs |-> <<>>]
    /\ wcall = [args |-> <<>>, kwargs |-> <<>>]
    /\ net = <<>>
    /\ func_calls = <<>>
    /\ func_ret = None
    /\ last_check = [tor |-> NoCheck, wtor |-> NoCheck]
    /\ verified = [tor |-> FALSE, wtor |-> FALSE]
    /\ ret = Running("none")
    /\ t2 = T2Idle

----------------------------------------------------------------------------
(* The caller: one operation at a time.  A call starts with a clean record *)
(* of what the operation does; the locals of a call die when it ends.      *)

NoReq == [method |-> "none", args |-> <<>>, kwargs |-> <<>>]
NoWcall == [args |-> <<>>, kwargs |-> <<>>]

\* the wrapper's client of an earlier call is out of scope
ForgetWrapperClient ==
    /\ last_check' = [last_check EXCEPT !["wtor"] = NoCheck]
    /\ verified' = [verified EXCEPT !["wtor"] = FALSE]

\* tor.check_tor_connection() on the caller's own client
CallCheckTorConnection ==
    /\ pc = "idle"
    /\ UNCHANGED t2
    /\ pc' = "check_tor_connection"
    /\ self' = "tor"
    /\ caller' = "top"
    /\ net' = <<>>
    /\ ret' = Running("check_tor_connection")
    /\ last_check' = [tor |-> CheckBegun(heap["tor"]), wtor |-> NoCheck]
    /\ verified' = [verified EXCEPT !["wtor"] = FALSE]
    /\ req' = NoReq
    /\ wcall' = NoWcall
    /\ func_calls' = <<>>
    /\ func_ret' = None
    /\ UNCHANGED <<heap, direct_ip, port_i>>

\* lines 127, 131, 135, 139: the method name each verb passes to _tor_request
VerbMethod(verb) == verb

\* tor.get / tor.post / tor.put / tor.delete on the caller's own client
\* (lines 125-139: each passes its own name and its arguments to _tor_request)
CallVerb ==
    /\ pc = "idle"
    /\ UNCHANGED t2
    /\ \E verb \in Methods, url \in UrlPool, kwargs \in KwargsPool :
          /\ req' = [method |-> VerbMethod(verb), args |-> <<url>>, kwargs |-> kwargs]
          /\ ret' = Running(verb)
    /\ pc' = "_tor_request"
    /\ self' = "tor"
    /\ caller' = "top"
    /\ net' = <<>>
    /\ ForgetWrapperClient
    /\ wcall' = NoWcall
    /\ func_calls' = <<>>
    /\ func_ret' = None
    /\ UNCHANGED <<heap, direct_ip, port_i>>

\* line 157: func(tor, *args, **kwargs)
WrapperFuncCall(tor, args, kwargs) == [tor |-> tor, args |-> args, kwargs |-> kwargs]

\* the wrapper ignoring the result of check_tor_connection
WrapperRaises_Never(result) == FALSE

\* line 155: if not tor.check_tor_connection(): raise
WrapperRaises(result) == ~Truthy(result)

\* the wrapper calling func without returning its result
WrapperResult_None(v) == None

\* line 157: return func(...)
WrapperResult(v) == v

\* fetch_webpage(...) as decorated: wrapper lines 153-155, up to the call of
\* check_tor_connection on a fresh TorRequestsWrapper()
CallWrapper ==
    /\ pc = "idle"
    /\ UNCHANGED t2
    /\ \E c \in WrapperCalls : wcall' = c
    /\ heap' = [heap EXCEPT !["wtor"] = __init__(DefaultPorts, DefaultTimeout)]
    /\ verified' = [verified EXCEPT !["wtor"] = FALSE]
    /\ last_check' = [last_check EXCEPT !["wtor"] = CheckBegun(heap'["wtor"])]
    /\ pc' = "check_tor_connection"
    /\ self' = "wtor"
    /\ caller' = "wrapper"
    /\ net' = <<>>
    /\ req' = NoReq
    /\ func_calls' = <<>>
    /\ func_ret' = None
    /\ ret' = Running("wrapper")
    /\ UNCHANGED <<direct_ip, port_i>>

----------------------------------------------------------------------------
(* check_tor_connection *)

\* return <v> from check_tor_connection, having stopped at loop position idx
CheckReturn(v, idx) ==
    /\ last_check' = [last_check EXCEPT
                         ![self] = [@ EXCEPT !.kind = "return", !.value = v, !.port_i = idx]]
    /\ verified' = [verified EXCEPT ![self] = @ \/ Truthy(v)]
    /\ IF caller = "top"
         THEN pc' = "idle" /\ ret' = Returned("check_tor_connection", v)
         ELSE pc' = "wrapper" /\ ret' = ret
    /\ self' = "tor"
    /\ caller' = "top"
    /\ direct_ip' = None
    /\ port_i' = 1

\* an exception leaves check_tor_connection; neither the caller's code nor
\* the wrapper catches it, and the wrapper's client goes out of scope
CheckRaise(e, idx) ==
    /\ last_check' = [last_check EXCEPT
                         ![self] = [@ EXCEPT !.kind = "raise", !.value = e, !.port_i = idx]]
    /\ verified' = verified
    /\ pc' = "idle"
    /\ ret' = Raised(ret.op, e)
    /\ heap' = [heap EXCEPT !["wtor"] = None]
    /\ self' = "tor"
    /\ caller' = "top"
    /\ direct_ip' = None
    /\ port_i' = 1

\* _get_direct_ip: what it returns for a probe outcome it handles
DirectIpResult(o) == IF o.kind = "ip" THEN Str(o.ip) ELSE None

\* _get_direct_ip: except requests.RequestException
DirectIpCaught(o) == o.kind \in {"ip", "RequestException"}

\* line 85: direct_ip = self._get_direct_ip()
GetDirectIp ==
    /\ pc = "check_tor_connection"
    /\ UNCHANGED t2
    /\ \E o \in ProbeOutcomes :
       /\ net' = Append(net, DirectIpCall(heap[self], o))
       /\ IF DirectIpCaught(o)
            THEN /\ direct_ip' = DirectIpResult(o)
                 /\ port_i' = 1
                 /\ pc' = "for_port"
                 /\ UNCHANGED <<heap, self, caller, last_check, verified, ret>>
            ELSE CheckRaise(PyException(o.kind, ""), 0)
    /\ UNCHANGED <<req, wcall, func_calls, func_ret>>

\* the settings not stored until the probe has succeeded
AssignBeforeProbe_Deferred(o, port) == o

\* line 91: self.proxies = self._create_proxies(port), before the probe
AssignBeforeProbe(o, port) == [o EXCEPT !.proxies = _create_proxies(port)]

\* the loop staying on the port that failed
LoopAdvance_Retry(i) == i

\* line 89: the for loop goes on to the next element of self.tor_ports
LoopAdvance(i) == i + 1

\* lines 89-91: for port in self.tor_ports: self.proxies = self._create_proxies(port);
\* lines 101-102 when the list is exhausted
ForPort ==
    /\ pc = "for_port"
    /\ UNCHANGED t2
    /\ IF port_i <= Len(heap[self].tor_ports)
         THEN /\ heap' = [heap EXCEPT
                     ![self] = AssignBeforeProbe(heap[self], PortAt(heap[self], port_i))]
              /\ pc' = "_get_tor_ip"
              /\ UNCHANGED <<self, caller, direct_ip, port_i, last_check, verified, ret>>
         ELSE /\ CheckReturn(PyBool(FALSE), port_i)
              /\ UNCHANGED heap
    /\ UNCHANGED <<req, wcall, net, func_calls, func_ret>>

\* the loop catching requests.RequestException alone
ProbeCaught_RequestOnly(o) == o.kind = "RequestException"

\* lines 96-99: except requests.RequestException / except socket.error
ProbeCaught(o) == o.kind \in {"RequestException", "socket.error"}

\* lines 92-99: tor_ip = self._get_tor_ip() and the test of line 93
GetTorIp ==
    /\ pc = "_get_tor_ip"
    /\ UNCHANGED t2
    /\ \E o \in ProbeOutcomes :
       /\ net' = Append(net, TorIpCall(heap[self], o))
       /\ CASE o.kind = "ip" /\ TorIpAccepted(Str(o.ip), direct_ip) ->
                  /\ CheckReturn(PyBool(TRUE), port_i)
                  /\ UNCHANGED heap
            [] (o.kind = "ip" /\ ~TorIpAccepted(Str(o.ip), direct_ip)) \/ ProbeCaught(o) ->
                  /\ port_i' = LoopAdvance(port_i)
                  /\ pc' = "for_port"
                  /\ UNCHANGED <<heap, self, caller, direct_ip, last_check, verified, ret>>
            [] OTHER ->
                  CheckRaise(PyException(o.kind, ""), port_i)
    /\ UNCHANGED <<req, wcall, func_calls, func_ret>>

----------------------------------------------------------------------------
(* _tor_request and the verbs *)

\* _tor_request calling the transport a second time when the first call fails
TorRequest_Retry(o, method, args, kwargs, t) ==
    IF ProxyNotConfigured(o)
      THEN [calls |-> <<>>,
            kind |-> "raise",
            value |-> PyException("Exception", NotConfiguredMsg)]
      ELSE [calls |-> IF t.kind = "response"
                        THEN <<TorRequestCall(o, method, args, kwargs, t)>>
                        ELSE <<TorRequestCall(o, method, args, kwargs, t),
                               TorRequestCall(o, method, args, kwargs, t)>>,
            kind |-> IF t.kind = "response" THEN "return" ELSE "raise",
            value |-> t.v]

\* _tor_request(method, *args, **kwargs) on object o with transport outcome t:
\* the transport calls it makes and how it ends
TorRequest(o, method, args, kwargs, t) ==
    IF ProxyNotConfigured(o)
      THEN [calls |-> <<>>,
            kind |-> "raise",
            value |-> PyException("Exception", NotConfiguredMsg)]
      ELSE [calls |-> <<TorRequestCall(o, method, args, kwargs, t)>>,
            kind |-> IF t.kind = "response" THEN "return" ELSE "raise",
            value |-> t.v]

\* _tor_request dropping the client's settings when the transport fails
DoTorRequest_ResetsOnError ==
    /\ pc = "_tor_request"
    /\ UNCHANGED t2
    /\ \E t \in TransportOutcomes :
          LET r == TorRequest(heap[self], req.method, req.args, req.kwargs, t)
          IN  /\ net' = net \o r.calls
              /\ ret' = [op |-> ret.op, kind |-> r.kind, value |-> r.value]
              /\ heap' = IF r.kind = "raise"
                           THEN [heap EXCEPT ![self].proxies = None]
                           ELSE heap
    /\ pc' = "idle"
    /\ UNCHANGED <<self, caller, direct_ip, port_i, req, wcall, func_calls,
                   func_ret, last_check, verified>>

\* lines 119-123, called from get/post/put/delete of lines 125-139
DoTorRequest ==
    /\ pc = "_tor_request"
    /\ UNCHANGED t2
    /\ \E t \in TransportOutcomes :
          LET r == TorRequest(heap[self], req.method, req.args, req.kwargs, t)
          IN  /\ net' = net \o r.calls
              /\ ret' = [op |-> ret.op, kind |-> r.kind, value |-> r.value]
    /\ pc' = "idle"
    /\ UNCHANGED <<heap, self, caller, direct_ip, port_i, req, wcall, func_calls,
                   func_ret, last_check, verified>>

----------------------------------------------------------------------------
(* tor_request: the decorator's wrapper, and the decorated fetch_webpage *)

\* lines 155-157 after check_tor_connection returned: raise, or call func
WrapperAfterCheck ==
    /\ pc = "wrapper"
    /\ UNCHANGED t2
    /\ IF WrapperRaises(last_check["wtor"].value)
         THEN /\ pc' = "idle"
              /\ ret' = Raised("wrapper", PyException("Exception", WrapperFailedMsg))
              /\ heap' = [heap EXCEPT !["wtor"] = None]
              /\ UNCHANGED func_calls
         ELSE /\ pc' = "func"
              /\ func_calls' = Append(func_calls,
                                  WrapperFuncCall("wtor", wcall.args, wcall.kwargs))
              /\ UNCHANGED <<heap, ret>>
    /\ UNCHANGED <<self, caller, direct_ip, port_i, req, wcall, net, func_ret,
                   last_check, verified>>

\* the url parameter of fetch_webpage(tor, url), bound positionally or by keyword
FetchUrl(c) == IF Len(c.args) >= 1 THEN c.args[1] ELSE c.kwargs.url

\* example.py lines 6-8: response = tor.get(url); return response.text
FetchWebpage ==
    /\ pc = "func"
    /\ UNCHANGED t2
    /\ LET c == func_calls[Len(func_calls)]
       IN  \E t \in TransportOutcomes :
              LET r == TorRequest(heap[c.tor], "get", <<FetchUrl(c)>>, <<>>, t)
              IN  /\ net' = net \o r.calls
                  /\ IF r.kind = "return"
                       THEN /\ func_ret' = Str(r.value.text)
                            /\ pc' = "wrapper_return"
                            /\ UNCHANGED <<heap, ret>>
                       ELSE /\ pc' = "idle"
                            /\ ret' = Raised("wrapper", r.value)
                            /\ heap' = [heap EXCEPT !["wtor"] = None]
                            /\ UNCHANGED func_ret
    /\ UNCHANGED <<self, caller, direct_ip, port_i, req, wcall, func_calls,
                   last_check, verified>>

\* line 157: the wrapper returns what func returned
WrapperReturn ==
    /\ pc = "wrapper_return"
    /\ UNCHANGED t2
    /\ pc' = "idle"
    /\ ret' = Returned("wrapper", WrapperResult(func_ret))
    /\ heap' = [heap EXCEPT !["wtor"] = None]
    /\ UNCHANGED <<self, caller, direct_ip, port_i, req, wcall, net, func_calls,
                   func_ret, last_check, verified>>

----------------------------------------------------------------------------

Next ==
    \/ CallCheckTorConnection
    \/ CallVerb
    \/ CallWrapper
    \/ GetDirectIp
    \/ ForPort
    \/ GetTorIp
    \/ DoTorRequest
    \/ WrapperAfterCheck
    \/ FetchWebpage
    \/ WrapperReturn

Spec == Init /\ [][Next]_vars

----------------------------------------------------------------------------
(* Two threads on one client: the first verifies, the second calls verbs.   *)
(* Nothing in the class guards self.proxies, so the statements of the two  *)
(* threads interleave; a read or a write of the attribute is one step.     *)

\* the verb the second thread calls
T2Methods == {"get"}

\* tor.get(url) on the second thread (lines 125-127)
T2CallVerb ==
    /\ t2.pc \in {"idle", "done"}
    /\ \E verb \in T2Methods :
          t2' = [T2Idle EXCEPT !.pc = "line_120", !.method = VerbMethod(verb)]
    /\ UNCHANGED <<heap, pc, self, caller, direct_ip, port_i, req, wcall, net,
                   func_calls, func_ret, last_check, verified, ret>>

\* lines 120-121 on the second thread: the test of self.proxies
T2Guard ==
    /\ t2.pc = "line_120"
    /\ IF ProxyNotConfigured(heap["tor"])
         THEN t2' = [t2 EXCEPT !.pc = "done", !.guard_at = pc, !.kind = "raise_config"]
         ELSE t2' = [t2 EXCEPT !.pc = "line_122", !.guard_at = pc]
    /\ UNCHANGED <<heap, pc, self, caller, direct_ip, port_i, req, wcall, net,
                   func_calls, func_ret, last_check, verified, ret>>

\* lines 122-123 on the second thread: self.proxies read again and passed on
T2Dispatch ==
    /\ t2.pc = "line_122"
    /\ \E t \in TransportOutcomes, url \in UrlPool :
          t2' = [t2 EXCEPT
                    !.pc = "done",
                    !.call_at = pc,
                    !.call_port_i = port_i,
                    !.call_verified = verified["tor"],
                    !.proxies =
                        TorRequestCall(heap["tor"], t2.method, <<url>>, <<>>, t).kwargs.proxies,
                    !.kind = IF t.kind = "response" THEN "return" ELSE "raise"]
    /\ UNCHANGED <<heap, pc, self, caller, direct_ip, port_i, req, wcall, net,
                   func_calls, func_ret, last_check, verified, ret>>

ConcNext ==
    \/ CallCheckTorConnection
    \/ GetDirectIp
    \/ ForPort
    \/ GetTorIp
    \/ T2CallVerb
    \/ T2Guard
    \/ T2Dispatch

SpecConc == Init /\ [][ConcNext]_vars

\* the calling thread runs: every call of the transport returns or raises
\* (timeout=self.timeout), and the statements between the calls do not block
FairSpec ==
    /\ Spec
    /\ WF_vars(GetDirectIp)
    /\ WF_vars(ForPort)
    /\ WF_vars(GetTorIp)

----------------------------------------------------------------------------
(* Vocabulary of the properties: what the record of an operation shows *)

IsDirectProbe(c) == c.by = "_get_direct_ip"
IsProbe(c) == c.by = "_get_tor_ip"
IsVerbCall(c) == c.by = "_tor_request"

\* the direct and the proxied IP-check queries of the operation, in order
Directs == SelectSeq(net, IsDirectProbe)
Probes == SelectSeq(net, IsProbe)

\* the operation in progress / last done is, or contains, a verification
InCheck == ret.op \in {"check_tor_connection", "wrapper"}

\* the client that operation works on, and its candidate ports
Checked == IF ret.op = "wrapper" THEN "wtor" ELSE "tor"
CheckedPorts == IF Checked = "wtor" THEN DefaultPorts ELSE heap["tor"].tor_ports

\* the direct IP as the service reported it; None when it is unknown
ObservedDirectIp ==
    IF Len(Directs) >= 1 /\ Directs[1].out.kind = "ip" THEN Str(Directs[1].out.ip) ELSE None

\* the verification of client o has returned v
CheckReturned(o, v) == last_check[o].kind = "return" /\ last_check[o].value = PyBool(v)
CheckEnded(o) == last_check[o].kind \in {"return", "raise"}

\* the i-th proxied probe came back with an IP address different from the direct IP
ProbeSucceeds(i) ==
    /\ Probes[i].out.kind = "ip"
    /\ Probes[i].out.ip # ""
    /\ Str(Probes[i].out.ip) # ObservedDirectIp

\* the i-th proxied probe came back with the direct IP, which was obtained
SameIp(i) ==
    /\ Len(Directs) >= 1
    /\ Directs[1].out.kind = "ip"
    /\ Directs[1].out.ip # ""
    /\ Probes[i].out.kind = "ip"
    /\ Probes[i].out.ip = Directs[1].out.ip

\* socks5h://127.0.0.1:<port> written out for the candidate ports
ExpectedUrl(port) ==
    CASE port = 9150 -> "socks5h://127.0.0.1:9150"
      [] port = 9050 -> "socks5h://127.0.0.1:9050"
ExpectedProxies(port) == Dict([http |-> ExpectedUrl(port), https |-> ExpectedUrl(port)])

ConfigurationError == PyException("Exception", NotConfiguredMsg)

\* a verb operation on the caller's client has ended
VerbDone == ret.op \in Methods /\ ret.kind # "running"

----------------------------------------------------------------------------
(* Properties *)

\* C1: a verb operation never issues an unproxied transport call: on a client
\* without active proxy settings it raises the configuration error and calls
\* nothing; otherwise its one transport call carries non-empty proxy settings.
C1_VerbNeverUnproxied ==
    /\ \A i \in 1..Len(net) :
          IsVerbCall(net[i]) =>
             /\ "proxies" \in DOMAIN net[i].kwargs
             /\ net[i].kwargs.proxies.type = "dict"
             /\ DOMAIN net[i].kwargs.proxies.d # {}
    /\ VerbDone =>
          IF heap["tor"].proxies = None
            THEN ret = Raised(ret.op, ConfigurationError) /\ net = <<>>
            ELSE Len(net) = 1 /\ IsVerbCall(net[1])

\* a verb given a proxies option of its own went out with the client's settings
C1_Witness ==
    /\ VerbDone
    /\ ret.kind = "return"
    /\ "proxies" \in DOMAIN req.kwargs
    /\ Len(net) = 1
    /\ net[1].kwargs.proxies = heap["tor"].proxies

\* C2 (as claimed): while no check_tor_connection of the client has returned
\* True (none was called, or the latest returned False), a verb operation
\* raises the configuration error and calls nothing.
C2_Claim_VerbFailsUntilVerified ==
    (VerbDone /\ ~verified["tor"] /\ last_check["tor"].kind \in {"none", "return"}) =>
        ret = Raised(ret.op, ConfigurationError) /\ net = <<>>

\* C3 (as claimed): a verification of a client that is as constructed, in which
\* every proxied probe fails or returns the direct IP, returns False and leaves
\* the client without proxy settings.
C3_Claim_FailedCheckLeavesStateEmpty ==
    ( /\ ret.op = "check_tor_connection"
      /\ last_check["tor"].kind = "return"
      /\ last_check["tor"].fresh
      /\ \A i \in 1..Len(Probes) :
            Probes[i].out.kind # "ip" \/ Str(Probes[i].out.ip) = ObservedDirectIp )
    => /\ ret = Returned("check_tor_connection", PyBool(FALSE))
       /\ heap["tor"].proxies = None

\* C4: the proxied probes go to the candidate ports in configured order; the
\* first probe that returns an IP different from the direct IP ends the
\* verification with True, with that port's settings active, and is the last probe.
C4_PortsInOrderFirstSuccessWins ==
    InCheck =>
       /\ Len(Probes) <= Len(CheckedPorts)
       /\ \A i \in 1..Len(Probes) :
             /\ Probes[i].kwargs.proxies = ExpectedProxies(CheckedPorts[i])
             /\ ProbeSucceeds(i) =>
                   /\ i = Len(Probes)
                   /\ CheckReturned(Checked, TRUE)
                   /\ last_check[Checked].port_i = i
                   /\ heap[Checked] # None =>
                         heap[Checked].proxies = ExpectedProxies(CheckedPorts[i])
                   /\ Checked = "tor" => ret = Returned("check_tor_connection", PyBool(TRUE))
       /\ CheckReturned(Checked, FALSE) =>
             /\ Len(Probes) = Len(CheckedPorts)
             /\ \A i \in 1..Len(Probes) : ~ProbeSucceeds(i)

\* the first port failed and the second, a different port, succeeded
C4_Witness ==
    /\ ret = Returned("check_tor_connection", PyBool(TRUE))
    /\ Len(Probes) = 2
    /\ ~ProbeSucceeds(1)
    /\ ProbeSucceeds(2)
    /\ CheckedPorts[1] # CheckedPorts[2]
    /\ heap["tor"].proxies = ExpectedProxies(CheckedPorts[2])

\* C5: a port whose proxied IP equals the obtained direct IP is a failed port:
\* the verification does not return True on it and goes on to the next
\* candidate, and returns False when every port's proxied IP equals the direct IP.
C5_SameIpIsFailure ==
    InCheck =>
       /\ \A i \in 1..Len(Probes) :
             SameIp(i) =>
                /\ ~(CheckReturned(Checked, TRUE) /\ last_check[Checked].port_i = i)
                /\ (CheckEnded(Checked) /\ i < Len(CheckedPorts)) => Len(Probes) > i
       /\ ( /\ CheckEnded(Checked)
            /\ Truthy(ObservedDirectIp)
            /\ Len(Probes) = Len(CheckedPorts)
            /\ \A i \in 1..Len(Probes) : SameIp(i) )
          => /\ CheckReturned(Checked, FALSE)
             /\ Checked = "tor" => ret = Returned("check_tor_connection", PyBool(FALSE))

\* both of two ports answered with the direct IP
C5_Witness ==
    /\ ret = Returned("check_tor_connection", PyBool(FALSE))
    /\ Len(Probes) = 2
    /\ SameIp(1)
    /\ SameIp(2)

\* C6: when the direct probe failed with a network error, a proxied probe that
\* returns any IP ends the verification with True and that port's settings active.
C6_DirectFailureAnyProxyIpVerifies ==
    (InCheck /\ Len(Directs) = 1 /\ Directs[1].out.kind = "RequestException") =>
       \A i \in 1..Len(Probes) :
          (Probes[i].out.kind = "ip" /\ Probes[i].out.ip # "") =>
             /\ CheckReturned(Checked, TRUE)
             /\ last_check[Checked].port_i = i
             /\ heap[Checked] # None =>
                   heap[Checked].proxies = ExpectedProxies(CheckedPorts[i])
             /\ Checked = "tor" => ret = Returned("check_tor_connection", PyBool(TRUE))

\* the direct probe failed, the first port failed too, the second returned an IP
C6_Witness ==
    /\ ret = Returned("check_tor_connection", PyBool(TRUE))
    /\ Directs[1].out.kind = "RequestException"
    /\ Len(Probes) = 2
    /\ Probes[2].out.kind = "ip"

\* C7: after a verification that returned True on port p, a verb operation
\* (the wrapped function's included) calls the transport once, with proxies
\* whose http and https entries are both socks5h://127.0.0.1:p.
C7_VerbUsesVerifiedPort ==
    CheckReturned(Checked, TRUE) =>
       /\ \A i \in 1..Len(net) :
             IsVerbCall(net[i]) =>
                net[i].kwargs.proxies =
                   ExpectedProxies(CheckedPorts[last_check[Checked].port_i])
       /\ VerbDone => Len(net) = 1 /\ IsVerbCall(net[1])

\* a verb went out through the second candidate port, 9050
C7_Witness ==
    /\ VerbDone
    /\ CheckReturned("tor", TRUE)
    /\ last_check["tor"].port_i = 2
    /\ Len(net) = 1
    /\ net[1].kwargs.proxies.d.https = "socks5h://127.0.0.1:9050"

\* C8: when the verification of the wrapper's fresh client returns False, the
\* wrapper raises its connection error and the wrapped function is not invoked.
C8_WrapperRaisesOnFailedCheck ==
    (ret.op = "wrapper" /\ CheckReturned("wtor", FALSE)) =>
       /\ func_calls = <<>>
       /\ \A i \in 1..Len(net) : ~IsVerbCall(net[i])
       /\ pc \in {"wrapper", "idle"}
       /\ pc = "idle" => ret = Raised("wrapper", PyException("Exception", WrapperFailedMsg))

\* the wrapper has raised after both default ports failed
C8_Witness ==
    /\ ret = Raised("wrapper", PyException("Exception", WrapperFailedMsg))
    /\ CheckReturned("wtor", FALSE)
    /\ Len(Probes) = 2
    /\ pc = "idle"

C10_TransportErrorPropagates ==
    [][ ( /\ pc = "_tor_request"
          /\ net' # <<>>
          /\ net'[Len(net')].out.kind = "raise" )
        => /\ Len(net') = 1
           /\ IsVerbCall(net'[1])
           /\ pc' = "idle"
           /\ ret' = Raised(req.method, net'[1].out.v)
           /\ ret'.value.cls \in TransportErrors
           /\ heap' = heap ]_vars

\* a put on a configured client ended in the transport's SSLError
C10_Witness ==
    /\ ret = Raised("put", PyException("SSLError", ""))
    /\ Len(net) = 1
    /\ net[1].out.kind = "raise"
    /\ Truthy(heap["tor"].proxies)

\* C11: a verb operation on a configured client calls the transport function
\* of its own name, with the client's active settings as the proxies option
\* (whatever the caller passed as proxies), and with the positional arguments
\* and every other option as the caller passed them.
C11_VerbPassesOptionsThrough ==
    (VerbDone /\ heap["tor"].proxies # None) =>
       /\ Len(net) = 1
       /\ net[1].method = ret.op
       /\ net[1].args = req.args
       /\ DOMAIN net[1].kwargs = (DOMAIN req.kwargs) \cup {"proxies"}
       /\ net[1].kwargs.proxies = heap["tor"].proxies
       /\ \A k \in (DOMAIN req.kwargs) \ {"proxies"} : net[1].kwargs[k] = req.kwargs[k]

\* a delete with headers and a proxies option of the caller's went out with
\* the headers kept and the proxies replaced
C11_Witness ==
    /\ VerbDone
    /\ ret.op = "delete"
    /\ req.kwargs = [headers |-> Str("h"), proxies |-> EmptyDict]
    /\ Len(net) = 1
    /\ net[1].method = "delete"
    /\ net[1].kwargs.headers = Str("h")
    /\ net[1].kwargs.proxies = ExpectedProxies(9050)

\* the i-th proxied probe ended in a network or a socket-level error
ProbeFailed(i) == Probes[i].out.kind \in {"RequestException", "socket.error"}

\* C12: a network or socket-level failure of a proxied probe does not leave the
\* verification: the next candidate is probed, and a verification whose
\* proxied probes all ended in success, network error or socket error returns
\* a boolean.
C12_ProbeFailureIsCaught ==
    InCheck =>
       /\ \A i \in 1..Len(Probes) :
             ProbeFailed(i) =>
                /\ ~(last_check[Checked].kind = "raise" /\ i = Len(Probes))
                /\ (CheckEnded(Checked) /\ i < Len(CheckedPorts)) => Len(Probes) > i
       /\ ( /\ CheckEnded(Checked)
            /\ Len(Probes) >= 1
            /\ \A i \in 1..Len(Probes) : Probes[i].out.kind = "ip" \/ ProbeFailed(i) )
          => /\ last_check[Checked].kind = "return"
             /\ last_check[Checked].value \in {PyBool(TRUE), PyBool(FALSE)}
             /\ Checked = "tor" => ret = Returned("check_tor_connection",
                                                  last_check["tor"].value)

\* a socket error on the first port was followed by a success on the second
C12_Witness ==
    /\ ret = Returned("check_tor_connection", PyBool(TRUE))
    /\ Len(Probes) = 2
    /\ Probes[1].out.kind = "socket.error"
    /\ ProbeSucceeds(2)

\* the last candidate port the verification of client o probed
LastProbedPort(o, ports) ==
    IF last_check[o].value = PyBool(TRUE) THEN ports[last_check[o].port_i]
                                          ELSE ports[Len(ports)]

\* C13: once a verification of a client with a non-empty port list has
\* returned, True or False, the client's proxy settings are those of the last
\* port it probed, and a verb operation that follows is sent through them.
C13_LastProbedPortStaysActive ==
    /\ ( /\ InCheck
         /\ last_check[Checked].kind = "return"
         /\ heap[Checked] # None
         /\ CheckedPorts # <<>> ) =>
          /\ Len(Probes) >= 1
          /\ heap[Checked].proxies = Probes[Len(Probes)].kwargs.proxies
          /\ heap[Checked].proxies = ExpectedProxies(LastProbedPort(Checked, CheckedPorts))
    /\ (last_check["tor"].kind = "return" /\ heap["tor"].tor_ports # <<>>) =>
          /\ heap["tor"].proxies =
                ExpectedProxies(LastProbedPort("tor", heap["tor"].tor_ports))
          /\ VerbDone =>
                /\ Len(net) = 1
                /\ net[1].kwargs.proxies =
                      ExpectedProxies(LastProbedPort("tor", heap["tor"].tor_ports))

\* a verb went out through the last-attempted port of a verification that
\* returned False
C13_Witness ==
    /\ VerbDone
    /\ CheckReturned("tor", FALSE)
    /\ Len(heap["tor"].tor_ports) = 2
    /\ Len(net) = 1
    /\ net[1].kwargs.proxies = ExpectedProxies(heap["tor"].tor_ports[2])

\* C14: a client has no proxy settings when constructed, and only the
\* verification changes a client: a verb call, however it ends, leaves the proxy
\* settings, the port list, the timeout and the IP-check URL as they were, and
\* the verification changes the proxy settings alone.
C14_OnlyVerificationChangesState ==
    /\ heap["tor"].proxies = None
    /\ [][ /\ pc = "_tor_request" => heap' = heap
           /\ pc = "func" => (heap'["wtor"] = heap["wtor"] \/ heap'["wtor"] = None)
           /\ pc' = "check_tor_connection" => heap'[self'].proxies = None \/ self' = "tor"
           /\ heap'["tor"] # heap["tor"] =>
                 /\ pc = "for_port"
                 /\ heap'["tor"] = [heap["tor"] EXCEPT !.proxies = heap'["tor"].proxies] ]_vars

\* a post on a configured client ended in a transport error with the settings
\* of the verified port still in place
C14_Witness ==
    /\ ret.op = "post"
    /\ ret.kind = "raise"
    /\ Len(net) = 1
    /\ CheckReturned("tor", TRUE)
    /\ heap["tor"].proxies = ExpectedProxies(heap["tor"].tor_ports[last_check["tor"].port_i])

\* C15 (as claimed): a failed direct probe, whatever the failure, does not end
\* the verification: the candidate ports are still probed.
C15_Claim_DirectFailureNeverAborts ==
    (InCheck /\ Len(Directs) = 1 /\ Directs[1].out.kind # "ip") =>
       /\ ~(last_check[Checked].kind = "raise" /\ Len(Probes) = 0)
       /\ CheckEnded(Checked) => Len(Probes) >= 1 \/ CheckedPorts = <<>>

\* what the record of a verification shows of its queries
C16_Queries ==
    InCheck =>
       /\ Len(Directs) <= 1
       /\ pc = "check_tor_connection" => net = <<>>
       /\ pc # "check_tor_connection" =>
             /\ Len(Directs) = 1
             /\ IsDirectProbe(net[1])
             /\ "proxies" \notin DOMAIN net[1].kwargs
       /\ Len(Probes) <= Len(CheckedPorts)
       /\ \A i \in 1..Len(Probes) :
             Probes[i].kwargs.proxies = ExpectedProxies(CheckedPorts[i])

\* C16: a verification ends, having sent one direct query, without proxies and
\* before every proxied query, and at most one proxied query to each candidate
\* of the port list.
C16_CheckTerminates ==
    /\ []C16_Queries
    /\ (pc \in {"check_tor_connection", "for_port", "_get_tor_ip"})
          ~> (pc \in {"idle", "wrapper"})

\* a verification that probed both of two candidates has returned
C16_Witness ==
    /\ ret = Returned("check_tor_connection", PyBool(FALSE))
    /\ Len(net) = 3
    /\ IsDirectProbe(net[1])
    /\ IsProbe(net[2])
    /\ IsProbe(net[3])

\* C17 (as claimed): the verification of a client constructed with an empty
\* port list sends no proxied probe, returns False and leaves the client
\* without proxy settings.
C17_Claim_EmptyPortList ==
    ( /\ ret.op = "check_tor_connection"
      /\ CheckEnded("tor")
      /\ heap["tor"].tor_ports = <<>> )
    => /\ Probes = <<>>
       /\ ret = Returned("check_tor_connection", PyBool(FALSE))
       /\ heap["tor"].proxies = None

\* C18: a client is not safe for concurrent use.  A verb of the second thread
\* that passes the test of line 120 while the first thread's probe of a
\* candidate port is in flight is not refused, and one dispatched while a probe
\* is in flight goes through the settings of the port being probed, whose probe
\* has not succeeded.
C18_VerbUsesPortBeingProbed ==
    /\ (t2.pc \in {"line_122", "done"} /\ t2.guard_at = "_get_tor_ip") =>
          t2.kind # "raise_config"
    /\ (t2.pc = "done" /\ t2.call_at = "_get_tor_ip") =>
          t2.proxies = ExpectedProxies(heap["tor"].tor_ports[t2.call_port_i])

\* the interleaving the claim names: no verification of the client has ever
\* returned True, the probe of the first candidate is still in flight, and the
\* second thread's verb has gone out through that candidate's settings
C18_Witness ==
    /\ pc = "_get_tor_ip"
    /\ port_i = 1
    /\ ~verified["tor"]
    /\ last_check["tor"].fresh
    /\ t2.pc = "done"
    /\ t2.kind = "return"
    /\ t2.call_at = "_get_tor_ip"
    /\ t2.call_port_i = 1
    /\ ~t2.call_verified
    /\ t2.proxies = ExpectedProxies(heap["tor"].tor_ports[1])

====
